---------------------------- MODULE Spec2Model ----------------------------
(***************************************************************************)
(* Matrimony management server: the biodata identifier allocator (both     *)
(* strategies), the biodata write routes, the GET routes under /biodatas,  *)
(* the user routes and the payment, contact-request and premium-request    *)
(* routes, modelled from src/index.js and src/unnamed/part_000.            *)
(*                                                                         *)
(* Three programs are modelled, selected by the variable `variant`:        *)
(*   "index"   : src/index.js (id = highest stored biodataId + 1)          *)
(*   "counter" : src/unnamed/part_000 lines 198-619 (atomic counter)       *)
(*   "legacy"  : src/unnamed/part_000 lines 1-196 (user and contact-       *)
(*               request routes only)                                      *)
(* A request is served by one of the processes in Procs; every await of a  *)
(* handler is a separate step, so that requests interleave exactly where   *)
(* the event loop lets them.  Every store call may throw.                  *)
(*                                                                         *)
(* Strings are sequences of one-character strings; a document is a         *)
(* function from field names to values, a missing field being a field      *)
(* outside its DOMAIN.  The field "oid" stands for Mongo's _id.            *)
(***************************************************************************)
EXTENDS Integers, Sequences, FiniteSets, TLC

\* ------------------------------------------------------------------ bounds
\* Concurrent requests in flight.
NumProcs == 2
\* Profile insertions attempted over a run.
MaxCreates == 3

Procs == 1..NumProcs

\* ------------------------------------------------------------- input sets
Emails == {"a@x.com", "b@x.com"}
NoHeader == "<no authorization header>"
BadToken == "<invalid or expired token>"
Tokens == Emails \cup {NoHeader, BadToken}
\* The account that creates profiles, and the accounts that sign up through
\* POST /users (the owner's own role is never looked up).
Owner == "a@x.com"
PostTokens == {Owner, NoHeader, BadToken}
SignupEmails == Emails \ {Owner}

NoRole == "<none>"
\* role of a POST /users body: missing, or one of the two roles
BodyRoles == {NoRole, "user", "admin"}

\* The empty document.
EmptyDoc == [f \in {} |-> 0]

\* POST /biodatas bodies of the write-side specification: no name, or a name
\* together with a client-chosen biodataId.
PostBodies ==
  { EmptyDoc, [name |-> <<"a">>, biodataId |-> 7] }

\* PUT /biodatas/:id bodies: a name and a biodataId.
PutBodies ==
  { [name |-> <<"a">>, biodataId |-> 9] }

\* --------------------------------------------------------------- documents
Has(d, f) == f \in DOMAIN d

\* { ...d, ...u } and Mongo's $set: u's fields replace or extend d's.
SetFields(d, u) ==
  [f \in DOMAIN d \cup DOMAIN u |-> IF f \in DOMAIN u THEN u[f] ELSE d[f]]

\* JS truthiness of a string-valued field: present and not "".
Truthy(d, f) == Has(d, f) /\ d[f] # <<>>

VARIABLES
  variant,    \* which program runs: "index" or "counter"
  biodatas,   \* the biodatas collection: a set of documents
  counters,   \* the counters collection: {} or {[id |-> "biodataId", seq |-> n]}
  users,      \* the users collection: a set of documents [oid, email, role,
              \* isPremium]; role is NoRole in a document without the field
  nextOid,    \* the next ObjectId the driver generates
  req,        \* per process: the request it serves and the handler's locals
  allocLog,   \* history: the ids the allocation step produced, in order
  resp,       \* the response sent last
  created,    \* history: [id, seen] of every insertOne, in order; the i-th
              \* inserted document has oid i
  qget,       \* the GET /biodatas in flight: its query and the items read
  qresp,      \* the response GET /biodatas sent last, with its request
  qcount,     \* the number of GET /biodatas requests received
  payments,          \* the payments collection: documents [oid, biodataId]
  contactRequests,   \* the contactRequests collection: documents [oid,
                     \* biodataId, status, paymentId, approvedAt]
  premiumRequests    \* the premiumRequests collection: documents [oid,
                     \* biodataId, status, approvedAt]

bioVars == <<variant, biodatas, counters, users, nextOid, req, resp, allocLog, created>>
queryVars == <<qget, qresp, qcount>>
ledgerVars == <<payments, contactRequests, premiumRequests>>
vars == <<bioVars, queryVars, ledgerVars>>


\* ---------------------------------------------------------------- requests
\* A process between requests: the handler's locals are gone.
Idle ==
  [pc |-> "done", op |-> "none", email |-> NoHeader, body |-> EmptyDoc,
   id |-> 0, newId |-> 0, seen |-> 0]

\* A handler suspended at an await.
Running(op, pc, email, body, id, newId, seen) ==
  [pc |-> pc, op |-> op, email |-> email, body |-> body, id |-> id,
   newId |-> newId, seen |-> seen]

\* A response: the route, the HTTP status and, as history, the store call
\* whose exception the handler caught ("none" when none threw).
Response(op, status, threw) == [op |-> op, status |-> status, threw |-> threw]

\* Process p sends a response and is free for the next request.
Respond(p, op, status, threw) ==
  /\ req' = [req EXCEPT ![p] = Idle]
  /\ resp' = Response(op, status, threw)

CanStart(p) == req[p].pc = "done"

\* verifyJWT without jwt.verify's check: any token passes.
VerifyJWTUnverified(tok) ==
  IF tok = NoHeader THEN 401 ELSE 0

\* verifyJWT: 401 without a header, 403 on a token jwt.verify rejects, and 0
\* (next()) on a token that decodes to an email.
VerifyJWT(tok) ==
  IF tok = NoHeader THEN 401 ELSE IF tok = BadToken THEN 403 ELSE 0

\* ObjectId.isValid(id) for the ids of the model.
ObjectIdIsValid(id) == id # 0

\* The route parameters a request may carry: a malformed id, the id of the
\* first document inserted, or a well-formed id no document has had yet.
OidParams == {0, 1, nextOid}

\* No GET /biodatas in flight.
QIdle == [pc |-> "done", rq |-> EmptyDoc, items |-> <<>>]

\* The response of GET /biodatas together with the request it answers:
\* {total, page, limit, biodatas} with status 200, or status 500 from the
\* catch; threw is history, as in Response.
QResponse(rq, status, threw, total, page, limit, items) ==
  [rq |-> rq, status |-> status, threw |-> threw, total |-> total,
   page |-> page, limit |-> limit, biodatas |-> items]

\* JS numbers as far as parseInt produces them: an integer or NaN.
NaN == [nan |-> TRUE, n |-> 0]
Num(n) == [nan |-> FALSE, n |-> n]

\* No GET /biodatas answered yet.
QNoResp == QResponse(EmptyDoc, 0, "none", 0, NaN, NaN, <<>>)

Init ==
  /\ variant \in {"index", "counter"}
  /\ biodatas = {}
  /\ counters = {}
  /\ users = {}
  /\ nextOid = 1
  /\ req = [p \in Procs |-> Idle]
  /\ resp = Response("none", 0, "none")
  /\ allocLog = <<>>
  /\ created = <<>>
  /\ qget = QIdle
  /\ qresp = QNoResp
  /\ qcount = 0
  /\ payments = {}
  /\ contactRequests = {}
  /\ premiumRequests = {}

\* ------------------------------------------------------------- POST /users
\* The upsert's $set: role is the body's role, or "user" when it has none.
UpsertRole(bodyRole) == IF bodyRole # NoRole THEN bodyRole ELSE "user"

\* The account documents with email e.
ByEmail(us, e) == {u \in us : u.email = e}

\* The _id of the next account document inserted (none is ever deleted).
NextUserOid(us) == Cardinality(us) + 1

\* updateOne({email: e}, {$set: {role}}, {upsert: true}): the collections the
\* store may be left with: one matching document updated, or with no match
\* a document inserted.
UpsertUser(us, e, role) ==
  IF ByEmail(us, e) = {}
  THEN {us \cup {SetFields(EmptyDoc, [oid |-> NextUserOid(us), email |-> e,
                                      role |-> role, isPremium |-> FALSE])}}
  ELSE {(us \ {u}) \cup {SetFields(u, [role |-> role])} : u \in ByEmail(us, e)}

\* POST /users of index.js and of part_000's second application: no
\* authentication; one updateOne with upsert.
PostUsers(p, hasEmail, e, bodyRole) ==
  /\ CanStart(p)
  /\ variant \in {"index", "counter"}
  /\ \/ /\ ~hasEmail
        /\ Respond(p, "USERS", 400, "none")
        /\ UNCHANGED users
     \/ /\ hasEmail
        /\ users' \in UpsertUser(users, e, UpsertRole(bodyRole))
        /\ Respond(p, "USERS", 200, "none")
     \/ /\ hasEmail
        /\ Respond(p, "USERS", 500, "updateOne")
        /\ UNCHANGED users
  /\ UNCHANGED <<variant, biodatas, counters, nextOid, allocLog, created, queryVars, ledgerVars>>

\* ---------------------------------------------------------- POST /biodatas
\* Set maximum.
SetMax(S) == CHOOSE m \in S : \A x \in S : x <= m

\* index.js: find().sort({biodataId: -1}).limit(1), then last[0].biodataId + 1,
\* or 1 on an empty collection.
MaxPlusOne(docs) ==
  IF docs = {} THEN 1 ELSE SetMax({d.biodataId : d \in docs}) + 1

\* $inc: {seq: 1}, with upsert: a missing counter document counts from 0.
SeqOf(cs) == IF cs = {} THEN 0 ELSE (CHOOSE c \in cs : TRUE).seq
IncSeqReset(seq) == 1
IncSeq(seq) == seq + 1

\* returnDocument: "after": the value read is the incremented one.
ReturnDocumentBefore(before, after) == before
ReturnDocument(before, after) == after

\* getNextBiodataId: one findOneAndUpdate, atomic in the store.
\* The counters collection afterwards, and the value returned.
GetNextBiodataId(cs) ==
  LET after == IncSeq(SeqOf(cs))
  IN  [counters |-> {[id |-> "biodataId", seq |-> after]},
       value |-> ReturnDocument(SeqOf(cs), after)]

\* The document POST /biodatas inserts: the body with biodataId assigned
\* over whatever the client sent, and in the counter variant ownerEmail.
NewBiodata(v, body, newId, email, oid) ==
  LET withId == SetFields(body, [biodataId |-> newId])
      owned == IF v = "counter" THEN SetFields(withId, [ownerEmail |-> email])
               ELSE withId
  IN  SetFields(owned, [oid |-> oid])

\* The allocation step throws before anything is inserted: the handler's
\* catch answers 500 and the request is over.
AllocFailsIgnored(p, tok, body) ==
  /\ req' = [req EXCEPT ![p] = Running("POST", "insert", tok, body, 0, 0, Len(created))]
  /\ UNCHANGED resp
AllocFails(p, tok, body) == Respond(p, "POST", 500, "alloc")

\* The request arrives (verifyJWT, the name check) and the handler runs up to
\* its first await, the allocation step: the max-id read (index.js) or the
\* counter increment (getNextBiodataId).  seen is history: how many profiles
\* had been created when the handler took its id.
PostBiodatas(p, tok, body) ==
  /\ CanStart(p)
  /\ Len(allocLog) < MaxCreates
  /\ \/ /\ VerifyJWT(tok) # 0
        /\ Respond(p, "POST", VerifyJWT(tok), "none")
        /\ UNCHANGED <<counters, allocLog>>
     \/ /\ VerifyJWT(tok) = 0 /\ ~Truthy(body, "name")
        /\ Respond(p, "POST", 400, "none")
        /\ UNCHANGED <<counters, allocLog>>
     \/ /\ VerifyJWT(tok) = 0 /\ Truthy(body, "name")
        /\ variant = "index"
        /\ req' = [req EXCEPT ![p] =
             Running("POST", "insert", tok, body, 0, MaxPlusOne(biodatas), Len(created))]
        /\ allocLog' = Append(allocLog, MaxPlusOne(biodatas))
        /\ UNCHANGED <<counters, resp>>
     \/ /\ VerifyJWT(tok) = 0 /\ Truthy(body, "name")
        /\ variant = "counter"
        /\ counters' = GetNextBiodataId(counters).counters
        /\ req' = [req EXCEPT ![p] =
             Running("POST", "insert", tok, body, 0,
                     GetNextBiodataId(counters).value, Len(created))]
        /\ allocLog' = Append(allocLog, GetNextBiodataId(counters).value)
        /\ UNCHANGED resp
     \/ \* the allocation step throws: catch, 500, nothing inserted
        /\ VerifyJWT(tok) = 0 /\ Truthy(body, "name")
        /\ AllocFails(p, tok, body)
        /\ UNCHANGED <<counters, allocLog>>
  /\ UNCHANGED <<variant, biodatas, users, nextOid, created, queryVars, ledgerVars>>

\* insertOne, then 201; or insertOne throws: catch, 500.
PostBiodatasInsert(p) ==
  /\ req[p].op = "POST" /\ req[p].pc = "insert"
  /\ \/ /\ biodatas' = biodatas \cup
             {NewBiodata(variant, req[p].body, req[p].newId, req[p].email, nextOid)}
        /\ nextOid' = nextOid + 1
        /\ created' = Append(created,
             [id |-> req[p].newId, seen |-> req[p].seen])
        /\ Respond(p, "POST", 201, "none")
     \/ /\ Respond(p, "POST", 500, "insertOne")
        /\ UNCHANGED <<biodatas, nextOid, created>>
  /\ UNCHANGED <<variant, counters, users, allocLog, queryVars, ledgerVars>>

\* ------------------------------------------------------- PUT /biodatas/:id
FindByOid(docs, id) == {d \in docs : d.oid = id}

\* updateOne({_id}, {$set: updateData}): the matching document, if any, with
\* updateData's fields set.
UpdateOneSet(docs, id, updateData) ==
  {IF d.oid = id THEN SetFields(d, updateData) ELSE d : d \in docs}

\* deleteOne({_id}).
DeleteOne(docs, id) == {d \in docs : d.oid # id}

\* The owner, or an account whose role is admin (part_000 lines 389-394).
IsOwner(doc, email) == doc.ownerEmail = email
IsAdmin(email) == \E u \in ByEmail(users, email) : u.role = "admin"

\* index.js: no owner check; one updateOne.
PutBiodatasIndex(p, tok, id, updateData) ==
  /\ CanStart(p)
  /\ variant = "index"
  /\ \/ /\ VerifyJWT(tok) # 0
        /\ Respond(p, "PUT", VerifyJWT(tok), "none")
        /\ UNCHANGED biodatas
     \/ /\ VerifyJWT(tok) = 0 /\ ~ObjectIdIsValid(id)
        /\ Respond(p, "PUT", 400, "none")
        /\ UNCHANGED biodatas
     \/ /\ VerifyJWT(tok) = 0 /\ ObjectIdIsValid(id)
        /\ biodatas' = UpdateOneSet(biodatas, id, updateData)
        /\ Respond(p, "PUT", 200, "none")
     \/ /\ VerifyJWT(tok) = 0 /\ ObjectIdIsValid(id)
        /\ Respond(p, "PUT", 500, "updateOne")
        /\ UNCHANGED biodatas
  /\ UNCHANGED <<variant, counters, users, nextOid, allocLog, created, queryVars, ledgerVars>>

\* part_000: the request arrives and the handler runs up to the findOne of
\* the document; the owner is let through, anyone else goes on to the
\* admin lookup.  op is "PUT" or "DELETE": both routes start alike.
OwnedBegin(p, op, tok, id, updateData) ==
  /\ CanStart(p)
  /\ variant = "counter"
  /\ \/ /\ VerifyJWT(tok) # 0
        /\ Respond(p, op, VerifyJWT(tok), "none")
     \/ /\ VerifyJWT(tok) = 0 /\ ~ObjectIdIsValid(id)
        /\ Respond(p, op, 400, "none")
     \/ /\ VerifyJWT(tok) = 0 /\ ObjectIdIsValid(id)
        /\ FindByOid(biodatas, id) = {}
        /\ Respond(p, op, 404, "none")
     \/ /\ VerifyJWT(tok) = 0 /\ ObjectIdIsValid(id)
        /\ \E d \in FindByOid(biodatas, id) :
             req' = [req EXCEPT ![p] =
               IF IsOwner(d, tok)
               THEN Running(op, "write", NoHeader, updateData, id, 0, 0)
               ELSE Running(op, "admin", tok, updateData, id, 0, 0)]
        /\ UNCHANGED resp
     \/ /\ VerifyJWT(tok) = 0 /\ ObjectIdIsValid(id)
        /\ Respond(p, op, 500, "findOne")
  /\ UNCHANGED <<variant, biodatas, counters, users, nextOid, allocLog, created, queryVars, ledgerVars>>

\* findOne of the requester's account: 403 unless its role is admin.
OwnedAdminCheck(p) ==
  /\ req[p].op \in {"PUT", "DELETE"} /\ req[p].pc = "admin"
  /\ \/ /\ IsAdmin(req[p].email)
        /\ req' = [req EXCEPT ![p].pc = "write", ![p].email = NoHeader]
        /\ UNCHANGED resp
     \/ /\ ~IsAdmin(req[p].email)
        /\ Respond(p, req[p].op, 403, "none")
     \/ /\ Respond(p, req[p].op, 500, "findOne")
  /\ UNCHANGED <<variant, biodatas, counters, users, nextOid, allocLog, created, queryVars, ledgerVars>>

PutBiodatasWrite(p) ==
  /\ req[p].op = "PUT" /\ req[p].pc = "write"
  /\ \/ /\ biodatas' = UpdateOneSet(biodatas, req[p].id, req[p].body)
        /\ Respond(p, "PUT", 200, "none")
     \/ /\ Respond(p, "PUT", 500, "updateOne")
        /\ UNCHANGED biodatas
  /\ UNCHANGED <<variant, counters, users, nextOid, allocLog, created, queryVars, ledgerVars>>

\* ---------------------------------------------------- DELETE /biodatas/:id
\* index.js: no owner check; one deleteOne.
DeleteBiodatasIndex(p, tok, id) ==
  /\ CanStart(p)
  /\ variant = "index"
  /\ \/ /\ VerifyJWT(tok) # 0
        /\ Respond(p, "DELETE", VerifyJWT(tok), "none")
        /\ UNCHANGED biodatas
     \/ /\ VerifyJWT(tok) = 0 /\ ~ObjectIdIsValid(id)
        /\ Respond(p, "DELETE", 400, "none")
        /\ UNCHANGED biodatas
     \/ /\ VerifyJWT(tok) = 0 /\ ObjectIdIsValid(id)
        /\ biodatas' = DeleteOne(biodatas, id)
        /\ Respond(p, "DELETE", 200, "none")
     \/ /\ VerifyJWT(tok) = 0 /\ ObjectIdIsValid(id)
        /\ Respond(p, "DELETE", 500, "deleteOne")
        /\ UNCHANGED biodatas
  /\ UNCHANGED <<variant, counters, users, nextOid, allocLog, created, queryVars, ledgerVars>>

DeleteBiodatasWrite(p) ==
  /\ req[p].op = "DELETE" /\ req[p].pc = "write"
  /\ \/ /\ biodatas' = DeleteOne(biodatas, req[p].id)
        /\ Respond(p, "DELETE", 200, "none")
     \/ /\ Respond(p, "DELETE", 500, "deleteOne")
        /\ UNCHANGED biodatas
  /\ UNCHANGED <<variant, counters, users, nextOid, allocLog, created, queryVars, ledgerVars>>

\* ------------------------------------------------ write-side specification
Next ==
  \E p \in Procs :
    \/ \E hasEmail \in BOOLEAN, e \in SignupEmails, r \in BodyRoles :
         PostUsers(p, hasEmail, e, r)
    \/ \E tok \in PostTokens, body \in PostBodies : PostBiodatas(p, tok, body)
    \/ PostBiodatasInsert(p)
    \/ \E tok \in Tokens, id \in OidParams, u \in PutBodies :
         PutBiodatasIndex(p, tok, id, u)
    \/ \E tok \in Tokens, id \in OidParams, u \in PutBodies :
         OwnedBegin(p, "PUT", tok, id, u)
    \/ \E tok \in Tokens, id \in OidParams :
         OwnedBegin(p, "DELETE", tok, id, EmptyDoc)
    \/ OwnedAdminCheck(p)
    \/ PutBiodatasWrite(p)
    \/ \E tok \in Tokens, id \in OidParams : DeleteBiodatasIndex(p, tok, id)
    \/ DeleteBiodatasWrite(p)

Spec == Init /\ [][Next]_vars


\* ----------------------------------------------------------- GET /biodatas
\* Stored documents of the query specification.
MaxDocs == 3
\* GET /biodatas requests served over a run of the query specification (the
\* store being fixed, one request does not affect the next).
MaxGets == 1

\* The bodies the profiles of the query specification were created from, in
\* the order of creation: ages with a tie, letters in both cases, a field
\* holding a ".", and one profile without an occupation.
SampleBodies ==
  << [name |-> <<"A", "b">>, occupation |-> <<"d">>,
      permanentDivision |-> <<"D">>, presentDivision |-> <<"D">>,
      biodataType |-> <<"M">>, maritalStatus |-> <<"s">>, age |-> 2],
     [name |-> <<"b">>, occupation |-> <<"x">>,
      permanentDivision |-> <<"d">>, presentDivision |-> <<"d">>,
      biodataType |-> <<"m">>, maritalStatus |-> <<"m">>, age |-> 2],
     [name |-> <<"b", "a">>, occupation |-> <<"a", ".">>,
      permanentDivision |-> <<"x">>, presentDivision |-> <<"d">>,
      biodataType |-> <<"F">>, maritalStatus |-> <<"s">>, age |-> 1],
     [name |-> <<"x">>,
      permanentDivision |-> <<"d">>, presentDivision |-> <<"x">>,
      biodataType |-> <<"m">>, maritalStatus |-> <<"m">>, age |-> 3] >>

\* The stores GET /biodatas is run against: the sample profiles were created
\* one after another by Owner and all but at most MaxDocs were deleted.
QStores(v) ==
  { {NewBiodata(v, SampleBodies[i], i, Owner, i) : i \in I} :
      I \in {J \in SUBSET (1..Len(SampleBodies)) : Cardinality(J) <= MaxDocs} }

\* A query string with the parameter f absent or holding one of vals.
Opt(f, vals) == {EmptyDoc} \cup {[g \in {f} |-> v] : v \in vals}

\* Query strings exercising the age bounds, paging and sorting ...
PagingRequests ==
  { SetFields(SetFields(SetFields(SetFields(a, b), c), d), e) :
      a \in Opt("minAge", {<<"2">>, <<"x">>}),
      b \in Opt("maxAge", {<<"3">>, <<"x">>}),
      c \in Opt("page", {<<"0">>, <<"1">>, <<"2">>, <<"x">>}),
      d \in Opt("limit", {<<"1">>, <<"2">>, <<"x">>}),
      e \in Opt("sort", {<<"d", "e", "s", "c">>}) }

\* ... and query strings exercising the filters.
FilterRequests ==
  { SetFields(SetFields(SetFields(SetFields(SetFields(a, b), c), d), e), f) :
      a \in Opt("q", {<<"a">>, <<"B">>, <<".">>}),
      b \in Opt("gender", {<<"m">>}),
      c \in Opt("permanentDivision", {<<"d">>}),
      d \in Opt("presentDivision", {<<"d">>}),
      e \in {EmptyDoc, [minAge |-> <<"2">>, maxAge |-> <<"3">>]},
      f \in Opt("maritalStatus", {<<"s">>}) }

Requests == PagingRequests \cup FilterRequests

\* parseInt(s): an optional sign, then the longest prefix of decimal digits;
\* NaN when there is no digit.  (The query strings carry no white space.)
DigitChars == <<"0", "1", "2", "3", "4", "5", "6", "7", "8", "9">>
IsDigit(c) == \E i \in 1..10 : DigitChars[i] = c
DigitVal(c) == (CHOOSE i \in 1..10 : DigitChars[i] = c) - 1

DigitPrefixLen(s) ==
  CHOOSE k \in 0..Len(s) :
    /\ \A i \in 1..k : IsDigit(s[i])
    /\ k = Len(s) \/ ~IsDigit(s[k + 1])

RECURSIVE Decimal(_)
Decimal(s) ==
  IF s = <<>> THEN 0
  ELSE 10 * Decimal(SubSeq(s, 1, Len(s) - 1)) + DigitVal(s[Len(s)])

ParseInt(s) ==
  LET signed == s # <<>> /\ s[1] \in {"-", "+"}
      body == IF signed THEN Tail(s) ELSE s
      k == DigitPrefixLen(body)
      sign == IF signed /\ s[1] = "-" THEN -1 ELSE 1
  IN  IF k = 0 THEN NaN ELSE Num(sign * Decimal(SubSeq(body, 1, k)))

\* JS arithmetic and comparison with NaN.
Sub(a, b) == IF a.nan \/ b.nan THEN NaN ELSE Num(a.n - b.n)
Mul(a, b) == IF a.nan \/ b.nan THEN NaN ELSE Num(a.n * b.n)
Positive(a) == ~a.nan /\ a.n > 0

\* page = 1, limit = 0, sort = "asc": the defaults of absent parameters.
PageOf(rq) == IF Has(rq, "page") THEN ParseInt(rq.page) ELSE Num(1)
LimitOf(rq) == IF Has(rq, "limit") THEN ParseInt(rq.limit) ELSE Num(0)
\* parseInt(limit || 0)
LimitOrZero(rq) == IF Truthy(rq, "limit") THEN ParseInt(rq.limit) ELSE Num(0)
SortOrder(rq) ==
  IF Has(rq, "sort") /\ rq.sort = <<"d", "e", "s", "c">> THEN -1 ELSE 1

\* skipCount = (parseInt(page) - 1) * parseInt(limit || 0)
SkipCountFromZero(page, limit) == Mul(page, limit)
SkipCount(page, limit) == Mul(Sub(page, Num(1)), limit)

\* Regular expressions with the i option, for the patterns of the model:
\* "." matches any character, any other character itself in either case.
Lower(c) ==
  CASE c = "A" -> "a" [] c = "B" -> "b" [] c = "D" -> "d"
    [] c = "F" -> "f" [] c = "M" -> "m" [] c = "X" -> "x"
    [] OTHER -> c

AtomMatchesI(a, c) == a = "." \/ Lower(a) = Lower(c)

\* new RegExp(`^${pat}$`, "i")
RegexFullMatchI(pat, s) ==
  /\ Len(pat) = Len(s)
  /\ \A k \in 1..Len(pat) : AtomMatchesI(pat[k], s[k])

\* {$regex: pat, $options: "i"}: the pattern matches somewhere in s.
RegexSearchI(pat, s) ==
  \E i \in 0..(Len(s) - Len(pat)) :
    \A k \in 1..Len(pat) : AtomMatchesI(pat[k], s[i + k])

\* {$gte: lo, $lte: hi} on an integer age: a NaN bound matches no integer.
GteLte(age, lo, hi) == ~lo.nan /\ ~hi.nan /\ lo.n <= age /\ age <= hi.n

\* The fields q is searched in.
QFields == {"name", "occupation", "permanentDivision"}

\* The query object without its $or clause, applied to document d.
MatchesFilters(d, rq) ==
  /\ Truthy(rq, "gender") =>
       Has(d, "biodataType") /\ RegexFullMatchI(rq.gender, d.biodataType)
  /\ Truthy(rq, "permanentDivision") =>
       Has(d, "permanentDivision") /\ d.permanentDivision = rq.permanentDivision
  /\ Truthy(rq, "presentDivision") =>
       Has(d, "presentDivision") /\ d.presentDivision = rq.presentDivision
  /\ (Truthy(rq, "minAge") /\ Truthy(rq, "maxAge")) =>
       Has(d, "age") /\ GteLte(d.age, ParseInt(rq.minAge), ParseInt(rq.maxAge))

\* The whole query object applied to document d.
Matches(d, rq) ==
  /\ MatchesFilters(d, rq)
  /\ Truthy(rq, "q") => \E f \in QFields : Has(d, f) /\ RegexSearchI(rq.q, d[f])

\* find(query) and countDocuments(query)
Find(docs, rq) == {d \in docs : Matches(d, rq)}
CountDocuments(docs, rq) == Cardinality(Find(docs, rq))

\* sort({age: dir}): the orders the store may deliver S in; documents of
\* equal age come in any order.
RECURSIVE SortedSeqs(_, _)
SortedSeqs(S, dir) ==
  IF S = {} THEN {<<>>}
  ELSE UNION { {<<d>> \o s : s \in SortedSeqs(S \ {d}, dir)} :
                 d \in {x \in S : \A y \in S : dir * x.age <= dir * y.age} }

\* if (parseInt(limit) > 0) cursor.skip(skipCount).limit(parseInt(limit))
Paginates(rq) == Positive(LimitOf(rq))

\* skip(NaN) and skip(n) with n < 0: the store rejects a negative skip; what
\* it makes of NaN is not defined: the command is rejected or nothing is
\* skipped.
SkipRejected(rq) ==
  /\ Paginates(rq)
  /\ LET skip == SkipCount(PageOf(rq), LimitOrZero(rq))
     IN  skip.nan \/ skip.n < 0

Min(a, b) == IF a <= b THEN a ELSE b

\* cursor.toArray(): the item sequences the cursor may deliver.
FindResults(docs, rq) ==
  LET sorted == SortedSeqs(Find(docs, rq), SortOrder(rq))
      skip == SkipCount(PageOf(rq), LimitOrZero(rq))
      lim == LimitOf(rq).n
  IN  IF ~Paginates(rq) THEN sorted
      ELSE IF skip.nan THEN {SubSeq(s, 1, Min(lim, Len(s))) : s \in sorted}
      ELSE IF skip.n < 0 THEN {}
      ELSE {SubSeq(s, skip.n + 1, Min(skip.n + lim, Len(s))) : s \in sorted}

\* The request arrives and the handler runs up to its first await,
\* cursor.toArray(): the items are read, or the call throws (the store
\* fails, or rejects the skip) and the catch answers 500.
GetBiodatasFind(rq) ==
  /\ qget.pc = "done"
  /\ qcount < MaxGets
  /\ qcount' = qcount + 1
  /\ \/ \E items \in FindResults(biodatas, rq) :
          /\ qget' = [pc |-> "count", rq |-> rq, items |-> items]
          /\ qresp' = QNoResp
     \/ /\ SkipRejected(rq)
        /\ qresp' = QResponse(rq, 500, "skip", 0, NaN, NaN, <<>>)
        /\ UNCHANGED qget
     \/ /\ qresp' = QResponse(rq, 500, "toArray", 0, NaN, NaN, <<>>)
        /\ UNCHANGED qget
  /\ UNCHANGED <<bioVars, ledgerVars>>

\* countDocuments(query), then the response; or countDocuments throws.
GetBiodatasCount ==
  /\ qget.pc = "count"
  /\ \/ qresp' = QResponse(qget.rq, 200, "none",
                           CountDocuments(biodatas, qget.rq),
                           PageOf(qget.rq), LimitOf(qget.rq), qget.items)
     \/ qresp' = QResponse(qget.rq, 500, "countDocuments", 0, NaN, NaN, <<>>)
  /\ qget' = QIdle
  /\ UNCHANGED <<bioVars, qcount, ledgerVars>>

\* ------------------------------------------------------ query specification
\* GET /biodatas against a fixed store: every sample store of at most
\* MaxDocs profiles, in either program.
InitQuery ==
  /\ variant \in {"index", "counter"}
  /\ biodatas \in QStores(variant)
  /\ counters = IF variant = "counter"
                THEN {[id |-> "biodataId", seq |-> Len(SampleBodies)]} ELSE {}
  /\ users = {}
  /\ nextOid = Len(SampleBodies) + 1
  /\ req = [p \in Procs |-> Idle]
  /\ resp = Response("POST", 201, "none")
  /\ allocLog = [i \in 1..Len(SampleBodies) |-> i]
  /\ created = [i \in 1..Len(SampleBodies) |-> [id |-> i, seen |-> i - 1]]
  /\ qget = QIdle
  /\ qresp = QNoResp
  /\ qcount = 0
  /\ payments = {}
  /\ contactRequests = {}
  /\ premiumRequests = {}

NextQuery ==
  \/ \E rq \in Requests : GetBiodatasFind(rq)
  \/ GetBiodatasCount

SpecQuery == InitQuery /\ [][NextQuery]_vars

\* ---------------------------------------------------------------- accounts
\* A third program takes part from here on: variant "legacy", the first
\* application of src/unnamed/part_000 (lines 1-196).

\* An account document.
NewUser(oid, email, role) ==
  SetFields(EmptyDoc, [oid |-> oid, email |-> email, role |-> role,
                       isPremium |-> FALSE])

\* The ids a user route may be called with: a malformed one, or the _id of
\* an account.
UserOidParams == {0} \cup {u.oid : u \in users}

\* updateOne({_id: id}, {$set: fields}) on a collection.
UpdateById(docs, id, fields) ==
  {IF d.oid = id THEN SetFields(d, fields) ELSE d : d \in docs}

\* The roles PATCH /users/role/:id is called with.
PatchRoles == {"user", "admin"}

\* part_000 lines 62-72, POST /users: findOne by email; an existing account
\* ends the request, otherwise the handler goes on to insertOne.  (The
\* bodies of the model carry an email.)
PostUsersLegacy(p, e, bodyRole) ==
  /\ CanStart(p)
  /\ variant = "legacy"
  /\ \/ /\ ByEmail(users, e) # {}
        /\ Respond(p, "USERS", 200, "none")
     \/ /\ ByEmail(users, e) = {}
        /\ req' = [req EXCEPT ![p] =
             Running("USERS", "insert", e, [role |-> bodyRole], 0, 0, 0)]
        /\ UNCHANGED resp
     \/ Respond(p, "USERS", 500, "findOne")
  /\ UNCHANGED <<variant, biodatas, counters, users, nextOid, allocLog, created,
                 queryVars, ledgerVars>>

\* insertOne(user): the body is stored as it came, role included.
PostUsersLegacyInsert(p) ==
  /\ req[p].op = "USERS" /\ req[p].pc = "insert"
  /\ \/ /\ users' = users \cup
             {NewUser(NextUserOid(users), req[p].email, req[p].body.role)}
        /\ Respond(p, "USERS", 200, "none")
     \/ /\ Respond(p, "USERS", 500, "insertOne")
        /\ UNCHANGED users
  /\ UNCHANGED <<variant, biodatas, counters, nextOid, allocLog, created,
                 queryVars, ledgerVars>>

\* part_000 lines 84-92, PATCH /users/role/:id: verifyToken, then updateOne
\* by _id with the role of the body.  The handler has no try: when
\* new ObjectId(id) or updateOne throws, no response is sent (status 0).
PatchUsersRole(p, tok, id, role) ==
  /\ CanStart(p)
  /\ variant = "legacy"
  /\ \/ /\ VerifyJWT(tok) # 0
        /\ Respond(p, "ROLE", VerifyJWT(tok), "none")
        /\ UNCHANGED users
     \/ /\ VerifyJWT(tok) = 0 /\ ~ObjectIdIsValid(id)
        /\ Respond(p, "ROLE", 0, "ObjectId")
        /\ UNCHANGED users
     \/ /\ VerifyJWT(tok) = 0 /\ ObjectIdIsValid(id)
        /\ users' = UpdateById(users, id, [role |-> role])
        /\ Respond(p, "ROLE", 200, "none")
     \/ /\ VerifyJWT(tok) = 0 /\ ObjectIdIsValid(id)
        /\ Respond(p, "ROLE", 0, "updateOne")
        /\ UNCHANGED users
  /\ UNCHANGED <<variant, biodatas, counters, nextOid, allocLog, created,
                 queryVars, ledgerVars>>

\* The programs that register the admin-gated route op.
GatedIn(op) ==
  IF op \in {"MAKEADMIN", "MAKEPREMIUM"} THEN {"index", "counter"}
  ELSE {"index"}

\* An admin-gated route: verifyJWT, then verifyAdmin (findOne of the
\* requester: 403 unless its role is admin, 500 when the lookup throws),
\* then the handler up to its first store call: 400 on a malformed id.
AdminGateBegin(p, op, tok, id) ==
  /\ CanStart(p)
  /\ variant \in GatedIn(op)
  /\ \/ /\ VerifyJWT(tok) # 0
        /\ Respond(p, op, VerifyJWT(tok), "none")
     \/ /\ VerifyJWT(tok) = 0 /\ ~IsAdmin(tok)
        /\ Respond(p, op, 403, "none")
     \/ /\ VerifyJWT(tok) = 0 /\ IsAdmin(tok) /\ ~ObjectIdIsValid(id)
        /\ Respond(p, op, 400, "none")
     \/ /\ VerifyJWT(tok) = 0 /\ IsAdmin(tok) /\ ObjectIdIsValid(id)
        /\ req' = [req EXCEPT ![p] = Running(op, "write", NoHeader, EmptyDoc, id, 0, 0)]
        /\ UNCHANGED resp
     \/ /\ VerifyJWT(tok) = 0
        /\ Respond(p, op, 500, "findOne")
  /\ UNCHANGED <<variant, biodatas, counters, users, nextOid, allocLog, created,
                 queryVars, ledgerVars>>

\* PATCH /users/:id/make-admin: updateOne by _id, $set role admin.
MakeAdminWrite(p) ==
  /\ req[p].op = "MAKEADMIN" /\ req[p].pc = "write"
  /\ \/ /\ users' = UpdateById(users, req[p].id, [role |-> "admin"])
        /\ Respond(p, "MAKEADMIN", 200, "none")
     \/ /\ Respond(p, "MAKEADMIN", 500, "updateOne")
        /\ UNCHANGED users
  /\ UNCHANGED <<variant, biodatas, counters, nextOid, allocLog, created,
                 queryVars, ledgerVars>>

\* PATCH /users/:id/make-premium: updateOne by _id, $set isPremium true.
MakePremiumWrite(p) ==
  /\ req[p].op = "MAKEPREMIUM" /\ req[p].pc = "write"
  /\ \/ /\ users' = UpdateById(users, req[p].id, [isPremium |-> TRUE])
        /\ Respond(p, "MAKEPREMIUM", 200, "none")
     \/ /\ Respond(p, "MAKEPREMIUM", 500, "updateOne")
        /\ UNCHANGED users
  /\ UNCHANGED <<variant, biodatas, counters, nextOid, allocLog, created,
                 queryVars, ledgerVars>>

\* --------------------------------------------------- accounts specification
\* The user routes of the three programs, on a users collection that holds
\* one admin account, Owner's, at the start.
InitAccounts ==
  /\ variant \in {"index", "counter", "legacy"}
  /\ biodatas = {}
  /\ counters = {}
  /\ users = {NewUser(1, Owner, "admin")}
  /\ nextOid = 1
  /\ req = [p \in Procs |-> Idle]
  /\ resp = Response("none", 0, "none")
  /\ allocLog = <<>>
  /\ created = <<>>
  /\ qget = QIdle
  /\ qresp = QNoResp
  /\ qcount = 0
  /\ payments = {}
  /\ contactRequests = {}
  /\ premiumRequests = {}

NextAccounts ==
  \E p \in Procs :
    \/ \E hasEmail \in BOOLEAN, e \in SignupEmails, r \in BodyRoles :
         PostUsers(p, hasEmail, e, r)
    \/ \E e \in SignupEmails, r \in BodyRoles : PostUsersLegacy(p, e, r)
    \/ PostUsersLegacyInsert(p)
    \/ \E tok \in Tokens, id \in UserOidParams, r \in PatchRoles :
         PatchUsersRole(p, tok, id, r)
    \/ \E op \in {"MAKEADMIN", "MAKEPREMIUM"}, tok \in Tokens, id \in UserOidParams :
         AdminGateBegin(p, op, tok, id)
    \/ MakeAdminWrite(p)
    \/ MakePremiumWrite(p)

SpecAccounts == InitAccounts /\ [][NextAccounts]_vars

\* ----------------------------------- payments, contact and premium requests
\* Documents per collection of the requests specification.
MaxLedger == 1
\* The clock values new Date() is read at.
MaxTime == 2
Times == 1..MaxTime

\* new Date(): a time not before any time stamped so far.
Now ==
  {t \in Times : \A d \in contactRequests \cup premiumRequests : d.approvedAt <= t}

\* The _id of the next document inserted into a collection that nothing is
\* deleted from.
NextOidOf(docs) == Cardinality(docs) + 1

\* The ids an approve route may be called with: a malformed one, the _id of
\* the first request, and a well-formed one no request has.
RequestOidParams(docs) == {0, 1, NextOidOf(docs)}

\* The bodies POST /payments, /contact-request and /premium-requests are
\* sent with: without a biodataId, or naming the stored profile; the second
\* also tries to choose the status itself.
LedgerBodies ==
  { EmptyDoc, [biodataId |-> 1, status |-> "approved"] }

\* A payment document: the body with createdAt (left out: no route reads it).
NewPayment(oid, body) == SetFields(EmptyDoc, [oid |-> oid, biodataId |-> body.biodataId])

\* A contact or premium request as it is created.  approvedAt 0 and
\* paymentId 0 stand for a document without the field.
NewRequest(oid, biodataId, status, paymentId, approvedAt) ==
  SetFields(EmptyDoc, [oid |-> oid, biodataId |-> biodataId, status |-> status,
                       paymentId |-> paymentId, approvedAt |-> approvedAt])

\* POST /payments: verifyJWT, the biodataId check, insertOne of the payment.
PostPayments(p, tok, body) ==
  /\ CanStart(p)
  /\ variant \in {"index", "counter"}
  /\ Cardinality(payments) < MaxLedger
  /\ \/ /\ VerifyJWT(tok) # 0
        /\ Respond(p, "PAY", VerifyJWT(tok), "none")
        /\ UNCHANGED payments
     \/ /\ VerifyJWT(tok) = 0 /\ ~Has(body, "biodataId")
        /\ Respond(p, "PAY", 400, "none")
        /\ UNCHANGED payments
     \/ /\ VerifyJWT(tok) = 0 /\ Has(body, "biodataId")
        /\ payments' = payments \cup {NewPayment(NextOidOf(payments), body)}
        /\ req' = [req EXCEPT ![p] =
             Running("PAY", "contact", NoHeader, [biodataId |-> body.biodataId],
                     NextOidOf(payments), 0, 0)]
        /\ UNCHANGED resp
     \/ /\ VerifyJWT(tok) = 0 /\ Has(body, "biodataId")
        /\ Respond(p, "PAY", 500, "insertOne")
        /\ UNCHANGED payments
  /\ UNCHANGED <<variant, biodatas, counters, users, nextOid, allocLog, created,
                 queryVars, contactRequests, premiumRequests>>

\* insertOne of the contact request: pending, carrying the payment's
\* biodataId and result.insertedId; then 201; or insertOne throws: 500.
PostPaymentsContact(p) ==
  /\ req[p].op = "PAY" /\ req[p].pc = "contact"
  /\ \/ /\ contactRequests' = contactRequests \cup
             {NewRequest(NextOidOf(contactRequests), req[p].body.biodataId,
                         "pending", req[p].id, 0)}
        /\ Respond(p, "PAY", 201, "none")
     \/ /\ Respond(p, "PAY", 500, "insertOne")
        /\ UNCHANGED contactRequests
  /\ UNCHANGED <<variant, biodatas, counters, users, nextOid, allocLog, created,
                 queryVars, payments, premiumRequests>>

\* part_000 lines 133-138, POST /contact-request: verifyToken, status set to
\* pending over the body's, insertOne.  No try: a throw leaves the request
\* unanswered (status 0).
PostContactRequest(p, tok, body) ==
  /\ CanStart(p)
  /\ variant = "legacy"
  /\ Cardinality(contactRequests) < MaxLedger
  /\ \/ /\ VerifyJWT(tok) # 0
        /\ Respond(p, "CONTACT", VerifyJWT(tok), "none")
        /\ UNCHANGED contactRequests
     \/ /\ VerifyJWT(tok) = 0
        /\ contactRequests' = contactRequests \cup
             {SetFields(NewRequest(0, 0, "pending", 0, 0),
                SetFields(body, [oid |-> NextOidOf(contactRequests),
                                 status |-> "pending"]))}
        /\ Respond(p, "CONTACT", 200, "none")
     \/ /\ VerifyJWT(tok) = 0
        /\ Respond(p, "CONTACT", 0, "insertOne")
        /\ UNCHANGED contactRequests
  /\ UNCHANGED <<variant, biodatas, counters, users, nextOid, allocLog, created,
                 queryVars, payments, premiumRequests>>

\* part_000 lines 145-151, PATCH /contact-request/approve/:id: verifyToken,
\* updateOne by _id, $set status approved.  No admin check and no try.
ApproveContactLegacy(p, tok, id) ==
  /\ CanStart(p)
  /\ variant = "legacy"
  /\ \/ /\ VerifyJWT(tok) # 0
        /\ Respond(p, "APPROVECONTACT", VerifyJWT(tok), "none")
        /\ UNCHANGED contactRequests
     \/ /\ VerifyJWT(tok) = 0 /\ ~ObjectIdIsValid(id)
        /\ Respond(p, "APPROVECONTACT", 0, "ObjectId")
        /\ UNCHANGED contactRequests
     \/ /\ VerifyJWT(tok) = 0 /\ ObjectIdIsValid(id)
        /\ contactRequests' = UpdateById(contactRequests, id, [status |-> "approved"])
        /\ Respond(p, "APPROVECONTACT", 200, "none")
     \/ /\ VerifyJWT(tok) = 0 /\ ObjectIdIsValid(id)
        /\ Respond(p, "APPROVECONTACT", 0, "updateOne")
        /\ UNCHANGED contactRequests
  /\ UNCHANGED <<variant, biodatas, counters, users, nextOid, allocLog, created,
                 queryVars, payments, premiumRequests>>

\* index.js PATCH /contact-requests/:id/approve, after the admin gate:
\* updateOne by _id, $set status approved and approvedAt new Date().
ApproveContactWrite(p) ==
  /\ req[p].op = "APPROVECONTACT" /\ req[p].pc = "write"
  /\ \/ \E now \in Now :
          /\ contactRequests' = UpdateById(contactRequests, req[p].id,
               [status |-> "approved", approvedAt |-> now])
          /\ Respond(p, "APPROVECONTACT", 200, "none")
     \/ /\ Respond(p, "APPROVECONTACT", 500, "updateOne")
        /\ UNCHANGED contactRequests
  /\ UNCHANGED <<variant, biodatas, counters, users, nextOid, allocLog, created,
                 queryVars, payments, premiumRequests>>

\* POST /premium-requests: verifyJWT, the biodataId check, status set to
\* pending over the body's, insertOne.
PostPremiumRequests(p, tok, body) ==
  /\ CanStart(p)
  /\ variant \in {"index", "counter"}
  /\ Cardinality(premiumRequests) < MaxLedger
  /\ \/ /\ VerifyJWT(tok) # 0
        /\ Respond(p, "PREMIUM", VerifyJWT(tok), "none")
        /\ UNCHANGED premiumRequests
     \/ /\ VerifyJWT(tok) = 0 /\ ~Has(body, "biodataId")
        /\ Respond(p, "PREMIUM", 400, "none")
        /\ UNCHANGED premiumRequests
     \/ /\ VerifyJWT(tok) = 0 /\ Has(body, "biodataId")
        /\ premiumRequests' = premiumRequests \cup
             {SetFields(NewRequest(0, 0, "pending", 0, 0),
                SetFields(body, [oid |-> NextOidOf(premiumRequests),
                                 status |-> "pending"]))}
        /\ Respond(p, "PREMIUM", 201, "none")
     \/ /\ VerifyJWT(tok) = 0 /\ Has(body, "biodataId")
        /\ Respond(p, "PREMIUM", 500, "insertOne")
        /\ UNCHANGED premiumRequests
  /\ UNCHANGED <<variant, biodatas, counters, users, nextOid, allocLog, created,
                 queryVars, payments, contactRequests>>

\* index.js PATCH /premium-requests/:id/approve, after the admin gate:
\* findOne of the request; 404 when there is none.
ApprovePremiumFind(p) ==
  /\ req[p].op = "APPROVEPREMIUM" /\ req[p].pc = "write"
  /\ \/ /\ FindByOid(premiumRequests, req[p].id) = {}
        /\ Respond(p, "APPROVEPREMIUM", 404, "none")
     \/ \E reqDoc \in FindByOid(premiumRequests, req[p].id) :
          /\ req' = [req EXCEPT ![p] =
               Running("APPROVEPREMIUM", "update", NoHeader,
                       [biodataId |-> reqDoc.biodataId], req[p].id, 0, 0)]
          /\ UNCHANGED resp
     \/ Respond(p, "APPROVEPREMIUM", 500, "findOne")
  /\ UNCHANGED <<variant, biodatas, counters, users, nextOid, allocLog, created,
                 queryVars, ledgerVars>>

\* updateOne of the request: $set status approved and approvedAt new Date().
ApprovePremiumUpdate(p) ==
  /\ req[p].op = "APPROVEPREMIUM" /\ req[p].pc = "update"
  /\ \/ \E now \in Now :
          /\ premiumRequests' = UpdateById(premiumRequests, req[p].id,
               [status |-> "approved", approvedAt |-> now])
          /\ req' = [req EXCEPT ![p].pc = "biodata"]
          /\ UNCHANGED resp
     \/ /\ Respond(p, "APPROVEPREMIUM", 500, "updateOne")
        /\ UNCHANGED premiumRequests
  /\ UNCHANGED <<variant, biodatas, counters, users, nextOid, allocLog, created,
                 queryVars, payments, contactRequests>>

\* updateOne({biodataId: parseInt(reqDoc.biodataId)}, {$set: {isPremium:
\* true}}) on the profiles: the first profile with that biodataId, if any.
SetPremium(docs, biodataId) ==
  IF \E d \in docs : Has(d, "biodataId") /\ d.biodataId = biodataId
  THEN {(docs \ {d}) \cup {SetFields(d, [isPremium |-> TRUE])} :
          d \in {e \in docs : Has(e, "biodataId") /\ e.biodataId = biodataId}}
  ELSE {docs}

\* The profile is made premium and the request answered "Premium approved";
\* or updateOne throws: 500.
ApprovePremiumBiodata(p) ==
  /\ req[p].op = "APPROVEPREMIUM" /\ req[p].pc = "biodata"
  /\ \/ /\ biodatas' \in SetPremium(biodatas, req[p].body.biodataId)
        /\ Respond(p, "APPROVEPREMIUM", 200, "none")
     \/ /\ Respond(p, "APPROVEPREMIUM", 500, "updateOne")
        /\ UNCHANGED biodatas
  /\ UNCHANGED <<variant, counters, users, nextOid, allocLog, created,
                 queryVars, ledgerVars>>

\* --------------------------------------------------- requests specification
\* The payment, contact-request and premium-request routes of the three
\* programs with the admin-gated user routes, on a store that holds an admin
\* account (Owner's), a plain account and one profile, biodataId 1.
GatedOps == {"MAKEADMIN", "MAKEPREMIUM", "APPROVECONTACT", "APPROVEPREMIUM"}

\* The ids a gated route is called with.
GatedOidParams(op) ==
  IF op = "APPROVECONTACT" THEN RequestOidParams(contactRequests)
  ELSE IF op = "APPROVEPREMIUM" THEN RequestOidParams(premiumRequests)
  ELSE {0, 2}

InitRequests ==
  /\ variant \in {"index", "counter", "legacy"}
  /\ biodatas = {NewBiodata(variant, EmptyDoc, 1, Owner, 1)}
  /\ counters = {}
  /\ users = {NewUser(1, Owner, "admin"), NewUser(2, "b@x.com", "user")}
  /\ nextOid = 2
  /\ req = [p \in Procs |-> Idle]
  /\ resp = Response("none", 0, "none")
  /\ allocLog = <<>>
  /\ created = <<>>
  /\ qget = QIdle
  /\ qresp = QNoResp
  /\ qcount = 0
  /\ payments = {}
  /\ contactRequests = {}
  /\ premiumRequests = {}

NextRequests ==
  \E p \in Procs :
    \/ \E tok \in Tokens, body \in LedgerBodies : PostPayments(p, tok, body)
    \/ PostPaymentsContact(p)
    \/ \E tok \in Tokens, body \in LedgerBodies : PostContactRequest(p, tok, body)
    \/ \E tok \in Tokens, id \in RequestOidParams(contactRequests) :
         ApproveContactLegacy(p, tok, id)
    \/ \E tok \in Tokens, body \in LedgerBodies : PostPremiumRequests(p, tok, body)
    \/ \E op \in GatedOps, tok \in Tokens :
         \E id \in GatedOidParams(op) : AdminGateBegin(p, op, tok, id)
    \/ MakeAdminWrite(p)
    \/ MakePremiumWrite(p)
    \/ ApproveContactWrite(p)
    \/ ApprovePremiumFind(p)
    \/ ApprovePremiumUpdate(p)
    \/ ApprovePremiumBiodata(p)

SpecRequests == InitRequests /\ [][NextRequests]_vars

\* ------------------------------------------------ GET /biodatas/<segment>
\* Path segments, as strings of characters.
BiodatasSegment == <<"b", "i", "o", "d", "a", "t", "a", "s">>
SimilarSegment == <<"s", "i", "m", "i", "l", "a", "r">>
IdParameter == <<":", "i", "d">>

\* The GET routes under /biodatas in the order the program registers them;
\* the second application of part_000 has no /biodatas/similar.
Routes(v) ==
  IF v = "index"
  THEN << [handler |-> "BYID", pattern |-> <<BiodatasSegment, IdParameter>>],
          [handler |-> "SIMILAR", pattern |-> <<BiodatasSegment, SimilarSegment>>],
          [handler |-> "LIST", pattern |-> <<BiodatasSegment>>] >>
  ELSE << [handler |-> "BYID", pattern |-> <<BiodatasSegment, IdParameter>>],
          [handler |-> "LIST", pattern |-> <<BiodatasSegment>>] >>

\* Express matches a path against a pattern segment by segment: a segment
\* starting with ":" is a parameter and matches any segment.
PatternMatches(pattern, path) ==
  /\ Len(pattern) = Len(path)
  /\ \A k \in 1..Len(pattern) : pattern[k][1] = ":" \/ pattern[k] = path[k]

\* The handler of the first registered route that matches; "none" when no
\* route does.
Dispatch(routes, path) ==
  IF \E i \in 1..Len(routes) : PatternMatches(routes[i].pattern, path)
  THEN routes[CHOOSE i \in 1..Len(routes) :
                /\ PatternMatches(routes[i].pattern, path)
                /\ \A j \in 1..(i - 1) : ~PatternMatches(routes[j].pattern, path)].handler
  ELSE "none"

\* The _id a string stands for: the ids of the model are written as
\* numerals, and 0 stands for every string ObjectId.isValid rejects.
SegmentOid(s) ==
  IF s # <<>> /\ \A i \in 1..Len(s) : IsDigit(s[i]) THEN Decimal(s) ELSE 0

\* The orders a cursor without sort may deliver the documents S in.
RECURSIVE Orderings(_)
Orderings(S) ==
  IF S = {} THEN {<<>>}
  ELSE UNION { {<<d>> \o s : s \in Orderings(S \ {d})} : d \in S }

\* The response of a handler of this section: the request (its last path
\* segment and, as history, the handler that served it, beside the query
\* string), the status and the documents sent.
PathResponse(seg, handler, query, status, threw, items) ==
  QResponse(SetFields(query, [path |-> seg, route |-> handler]),
            status, threw, 0, NaN, NaN, items)

\* GET /biodatas/:id: 400 on a malformed id, findOne by _id, 404 when there
\* is none, 500 when findOne throws.
ByIdResponses(docs, seg, query) ==
  IF ~ObjectIdIsValid(SegmentOid(seg))
  THEN {PathResponse(seg, "BYID", query, 400, "none", <<>>)}
  ELSE {PathResponse(seg, "BYID", query, 500, "findOne", <<>>)} \cup
       IF FindByOid(docs, SegmentOid(seg)) = {}
       THEN {PathResponse(seg, "BYID", query, 404, "none", <<>>)}
       ELSE {PathResponse(seg, "BYID", query, 200, "none", <<d>>) :
               d \in FindByOid(docs, SegmentOid(seg))}

\* The query of GET /biodatas/similar: biodataType matching ^gender$ without
\* regard to case, and _id other than exclude when exclude is a valid id.
SimilarMatches(d, query) ==
  /\ Has(d, "biodataType") /\ RegexFullMatchI(query.gender, d.biodataType)
  /\ (Truthy(query, "exclude") /\ ObjectIdIsValid(SegmentOid(query.exclude)))
       => d.oid # SegmentOid(query.exclude)

\* GET /biodatas/similar: 400 without gender, else find(query).limit(3).
SimilarResponses(docs, seg, query) ==
  IF ~Truthy(query, "gender")
  THEN {PathResponse(seg, "SIMILAR", query, 400, "none", <<>>)}
  ELSE {PathResponse(seg, "SIMILAR", query, 500, "toArray", <<>>)} \cup
       {PathResponse(seg, "SIMILAR", query, 200, "none", SubSeq(s, 1, Min(3, Len(s)))) :
          s \in Orderings({d \in docs : SimilarMatches(d, query)})}

\* The responses the handler h may give.
HandlerResponses(h, docs, seg, query) ==
  IF h = "BYID" THEN ByIdResponses(docs, seg, query)
  ELSE IF h = "SIMILAR" THEN SimilarResponses(docs, seg, query)
  ELSE {PathResponse(seg, "none", query, 404, "none", <<>>)}

\* The last segments and the query strings GET /biodatas/<segment> is
\* requested with.
PathSegments == {SimilarSegment, <<"1">>, <<"5">>}
SimilarQueries ==
  { SetFields(a, b) : a \in Opt("gender", {<<"m">>, <<"F">>}),
                      b \in Opt("exclude", {<<"2">>, <<"x">>}) }

\* GET /biodatas/<seg>?<query>: the request is dispatched to the first
\* matching route and its handler answers (each of the two handlers has one
\* await, so the request is one step).
GetBiodatasSegment(seg, query) ==
  /\ qget.pc = "done"
  /\ qcount < MaxGets
  /\ qcount' = qcount + 1
  /\ qresp' \in HandlerResponses(Dispatch(Routes(variant), <<BiodatasSegment, seg>>),
                                biodatas, seg, query)
  /\ UNCHANGED <<bioVars, qget, ledgerVars>>

\* ----------------------------------------------------- routes specification
\* GET /biodatas/<segment> against every sample store, in either program.
NextRoutes ==
  \E seg \in PathSegments, query \in SimilarQueries : GetBiodatasSegment(seg, query)

SpecRoutes == InitQuery /\ [][NextRoutes]_vars

\* ------------------------------------------- GET /biodatas beside the writers
\* The bodies profiles are created from while GET /biodatas is served: two
\* of the sample bodies, of different type and age.
ReadWriteBodies == {SampleBodies[1], SampleBodies[3]}

\* The query strings GET /biodatas is requested with beside the writers:
\* none, a filter, and a page of one.
ReadWriteRequests ==
  { EmptyDoc, [gender |-> <<"m">>], [limit |-> <<"1">>] }

\* ------------------------------------------------- read-write specification
\* One GET /biodatas (its find and its countDocuments are two steps) while
\* the processes create and delete profiles, starting from an empty store.
\* Profiles are deleted by their owner.
NextReadWrite ==
  \/ \E p \in Procs :
       \/ \E body \in ReadWriteBodies : PostBiodatas(p, Owner, body)
       \/ PostBiodatasInsert(p)
       \/ \E id \in OidParams : DeleteBiodatasIndex(p, Owner, id)
       \/ \E id \in OidParams : OwnedBegin(p, "DELETE", Owner, id, EmptyDoc)
       \/ DeleteBiodatasWrite(p)
  \/ \E rq \in ReadWriteRequests : GetBiodatasFind(rq)
  \/ GetBiodatasCount

SpecReadWrite == Init /\ [][NextReadWrite]_vars

\* ------------------------------------------------------------------ claims
Range(q) == {q[i] : i \in 1..Len(q)}

InFlightPost(p) == req[p].op = "POST" /\ req[p].pc = "insert"

\* C1: counter variant: however the creations interleave, the values
\* getNextBiodataId has returned are pairwise distinct and are exactly
\* c+1..c+N, c being the counter before the calls (0: no counter document):
\* the k-th value returned is k, the counter holds the number of values
\* returned, and two requests in flight never hold the same value.
C1_AllocatedIdsDistinctNoGaps ==
  variant = "counter" =>
    /\ \A i \in 1..Len(allocLog) : allocLog[i] = i
    /\ SeqOf(counters) = Len(allocLog)
    /\ \A p, q \in Procs :
         (p # q /\ InFlightPost(p) /\ InFlightPost(q)) => req[p].newId # req[q].newId

\* C1 witness: two creations in flight at once, each holding its id.
C1_Witness ==
  /\ variant = "counter"
  /\ \A p \in Procs : InFlightPost(p)
  /\ Len(allocLog) = NumProcs

\* C2: index.js: no two stored profiles ever hold the same biodataId.
C2_NoDuplicateBiodataId ==
  variant = "index" =>
    \A d, e \in biodatas : d.oid # e.oid => d.biodataId # e.biodataId

\* C3: index.js: a newly created profile's biodataId is strictly greater
\* than the biodataId assigned to every profile created before the request
\* took its id, deleted or not.
C3_IndexNeverReusesId ==
  variant = "index" =>
    \A i \in 1..Len(created) :
      \A j \in 1..created[i].seen : created[i].id > created[j].id

OneAtATime ==
  /\ Len(allocLog) = Len(created)
  /\ \A i \in 1..Len(created) : created[i].seen = i - 1

C5_BiodataIdImmutable ==
  \A d \in biodatas : d.biodataId = created[d.oid].id

\* C6: a POST /biodatas whose allocation step throws is answered 500 and
\* inserts nothing, and every profile is inserted with an id the allocation
\* step produced: no stored profile lacks a biodataId or holds a placeholder.
C6_FailedAllocationInsertsNothing ==
  /\ [](/\ resp.threw = "alloc" => (resp.op = "POST" /\ resp.status = 500)
        /\ \A i \in 1..Len(created) : created[i].id \in Range(allocLog)
        /\ \A d \in biodatas : Has(d, "biodataId") /\ d.biodataId >= 1)
  /\ [][resp'.threw = "alloc" =>
          (biodatas' = biodatas /\ created' = created /\ nextOid' = nextOid)]_vars

\* C6 witness: the allocation of a creation threw while a profile is stored.
C6_Witness ==
  /\ resp = Response("POST", 500, "alloc")
  /\ biodatas # {}

\* ------------------------------------------------- claims on GET /biodatas
\* A decimal numeral: what a client sends for a numeric parameter.
IsNumeral(s) == s # <<>> /\ \A i \in 1..Len(s) : IsDigit(s[i])

\* The query string without parameter f.
Without(rq, f) == [g \in DOMAIN rq \ {f} |-> rq[g]]

\* GET /biodatas has answered 200.
Answered == qresp.status = 200

\* C7: a request carrying only age bounds (numerals), paging and sorting:
\* total counts exactly the profiles whose age is >= minAge where minAge is
\* supplied and <= maxAge where maxAge is supplied, each bound alone or both
\* together, and without a limit the items returned are exactly those
\* profiles.
C7_AgeBoundsInclusiveEachAlone ==
  LET rq == qresp.rq
      inRange ==
        {d \in biodatas :
           /\ Has(rq, "minAge") => d.age >= ParseInt(rq.minAge).n
           /\ Has(rq, "maxAge") => d.age <= ParseInt(rq.maxAge).n}
  IN  ( /\ Answered
        /\ DOMAIN rq \subseteq {"minAge", "maxAge", "page", "limit", "sort"}
        /\ Has(rq, "minAge") \/ Has(rq, "maxAge")
        /\ Has(rq, "minAge") => IsNumeral(rq.minAge)
        /\ Has(rq, "maxAge") => IsNumeral(rq.maxAge) )
      => /\ qresp.total = Cardinality(inRange)
         /\ ~Has(rq, "limit") => Range(qresp.biodatas) = inRange

\* The arrangements of the set S in a sequence.
Arrangements(S) ==
  {f \in [1..Cardinality(S) -> S] :
     \A i, j \in 1..Cardinality(S) : i # j => f[i] # f[j]}

\* C8: limit a positive numeral L and page a numeral p >= 1 (or absent: 1):
\* the items returned are the elements at positions (p-1)*L .. (p-1)*L+L-1
\* of the matching profiles arranged by age, ascending unless sort=desc,
\* and total is the number of all matching profiles.
C8_PageIsSliceOfOrderedMatches ==
  LET rq == qresp.rq
      L == ParseInt(rq.limit).n
      p == IF Has(rq, "page") THEN ParseInt(rq.page).n ELSE 1
      desc == Has(rq, "sort") /\ rq.sort = <<"d", "e", "s", "c">>
      matching == {d \in biodatas : Matches(d, rq)}
      n == Cardinality(matching)
      first == (p - 1) * L
      items == qresp.biodatas
  IN  ( /\ Answered
        /\ Has(rq, "limit") /\ IsNumeral(rq.limit) /\ L > 0
        /\ Has(rq, "page") => (IsNumeral(rq.page) /\ p >= 1) )
      => /\ qresp.total = n
         /\ \E all \in Arrangements(matching) :
              /\ \A i, j \in 1..n :
                   i < j => IF desc THEN all[i].age >= all[j].age
                            ELSE all[i].age <= all[j].age
              /\ Len(items) = IF n - first <= 0 THEN 0 ELSE Min(L, n - first)
              /\ \A k \in 1..Len(items) : items[k] = all[first + k]

\* C8 witness: page 2 with limit 2 of three matching profiles, descending:
\* the one item left, the youngest, with total 3.
C8_Witness ==
  /\ Answered
  /\ Has(qresp.rq, "limit") /\ qresp.rq.limit = <<"2">>
  /\ Has(qresp.rq, "page") /\ qresp.rq.page = <<"2">>
  /\ Has(qresp.rq, "sort")
  /\ qresp.total = 3
  /\ Len(qresp.biodatas) = 1
  /\ \A d \in biodatas : qresp.biodatas[1].age <= d.age

\* C9: a request whose only parameter that is not a numeral is one of
\* minAge, maxAge, page, limit: when it is answered 200, its items and total
\* are those the same request without that parameter has.  (Read in the
\* claim's favour: a request the store rejects or fails is left aside.)
C9_NonNumericTreatedAsAbsent ==
  LET rq == qresp.rq
      numeric == {"minAge", "maxAge", "page", "limit"}
  IN  \A f \in numeric :
        ( /\ Answered
          /\ Has(rq, f) /\ ~IsNumeral(rq[f])
          /\ \A g \in numeric \ {f} : Has(rq, g) => IsNumeral(rq[g]) )
        => /\ qresp.biodatas \in FindResults(biodatas, Without(rq, f))
           /\ qresp.total = CountDocuments(biodatas, Without(rq, f))

\* s contains q as a substring, ignoring case.
ContainsIgnoringCase(s, q) ==
  \E i \in 0..(Len(s) - Len(q)) :
    \A k \in 1..Len(q) : Lower(s[i + k]) = Lower(q[k])

\* C10: a request with q and no limit: the items returned are exactly the
\* profiles that pass the other filters of the query and hold q as a
\* case-insensitive substring in name, occupation or permanentDivision, and
\* total is their number.
C10_FreeTextIsSubstring ==
  LET rq == qresp.rq
      expected ==
        {d \in biodatas :
           /\ MatchesFilters(d, rq)
           /\ \E f \in QFields : Has(d, f) /\ ContainsIgnoringCase(d[f], rq.q)}
  IN  (Answered /\ Has(rq, "q") /\ ~Has(rq, "limit"))
      => /\ Range(qresp.biodatas) = expected
         /\ qresp.total = Cardinality(expected)

\* a and b are the same string, ignoring case.
EqualIgnoringCase(a, b) ==
  /\ Len(a) = Len(b)
  /\ \A k \in 1..Len(a) : Lower(a[k]) = Lower(b[k])

\* The categorical parameters of GET /biodatas.
Categorical == {"gender", "permanentDivision", "presentDivision", "maritalStatus"}

\* C11: a request carrying categorical filters only: the items returned are
\* exactly the profiles whose biodataType equals gender ignoring case and
\* whose permanentDivision, presentDivision and maritalStatus equal the
\* parameter of that name, for each parameter supplied; total is their
\* number.
C11_CategoricalFiltersConjunction ==
  LET rq == qresp.rq
      expected ==
        {d \in biodatas :
           /\ Has(rq, "gender") =>
                (Has(d, "biodataType") /\ EqualIgnoringCase(d.biodataType, rq.gender))
           /\ \A f \in Categorical \ {"gender"} :
                Has(rq, f) => (Has(d, f) /\ d[f] = rq[f])}
  IN  (Answered /\ DOMAIN rq \subseteq Categorical /\ DOMAIN rq # {})
      => /\ Range(qresp.biodatas) = expected
         /\ qresp.total = Cardinality(expected)

\* ------------------------------------------- claims on owners and accounts
\* C12: every profile of the write-side specification is created by Owner.
\* A PUT or DELETE on a stored profile by an authenticated requester who is
\* neither Owner nor an admin is answered 403 (500 when a store call of
\* the check throws) and leaves the biodatas collection as it was: in
\* index.js the one-step handlers, in part_000 the step that looks the
\* requester up, which must end the request.
C12_OnlyOwnerOrAdminModifies ==
  [][ \A p \in Procs, tok \in Emails :
        (tok # Owner /\ ~IsAdmin(tok)) =>
          /\ \A id \in OidParams, u \in PutBodies :
               (FindByOid(biodatas, id) # {} /\ PutBiodatasIndex(p, tok, id, u))
                 => (resp'.status \in {403, 500} /\ biodatas' = biodatas)
          /\ \A id \in OidParams :
               (FindByOid(biodatas, id) # {} /\ DeleteBiodatasIndex(p, tok, id))
                 => (resp'.status \in {403, 500} /\ biodatas' = biodatas)
          /\ (req[p].pc = "admin" /\ req[p].email = tok /\ OwnedAdminCheck(p))
                 => /\ resp'.status \in {403, 500}
                    /\ biodatas' = biodatas
                    /\ req'[p].pc = "done"
    ]_vars

\* C13: an account comes to hold role admin (a new document with the role,
\* or a document whose role changes to it) only in the step in which a
\* make-admin request that passed verifyAdmin updates that account.
C13_AdminOnlyThroughGatedPromotion ==
  [][ \A u \in users' :
        (u.role = "admin" /\ ~\E v \in users : v.oid = u.oid /\ v.role = "admin")
          => \E p \in Procs :
               /\ req[p].op = "MAKEADMIN" /\ req[p].pc = "write"
               /\ req[p].id = u.oid
               /\ req'[p].pc = "done"
    ]_vars

\* C18: the users collection never holds two documents with one email.
C18_OneAccountPerEmail ==
  \A u, v \in users : u.oid # v.oid => u.email # v.email


\* ------------------------------------------------ claims on gated requests
\* The collections a request may change.
stores ==
  <<biodatas, counters, users, payments, contactRequests, premiumRequests>>

\* C14: a request to an admin-gated mutation (make-admin, make-premium,
\* approve contact request, approve premium request) that carries a valid
\* token of a requester whose account is not an admin is answered 403 (500
\* when the role lookup itself fails), ends there, and changes no collection.
C14_NonAdminGetsForbidden ==
  [][ \A p \in Procs, tok \in Emails :
        ~IsAdmin(tok) =>
          /\ \A op \in GatedOps : \A id \in GatedOidParams(op) :
               AdminGateBegin(p, op, tok, id)
                 => /\ resp'.status \in {403, 500}
                    /\ req'[p].pc = "done"
                    /\ stores' = stores
          /\ \A id \in RequestOidParams(contactRequests) :
               ApproveContactLegacy(p, tok, id)
                 => /\ resp'.status = 403
                    /\ stores' = stores
    ]_vars

\* A request of process p, sent with the Authorization value tok, arrives
\* at one of the routes registered behind verifyJWT or verifyToken.
TokenProtectedRequest(p, tok) ==
  \/ \E body \in PostBodies : PostBiodatas(p, tok, body)
  \/ \E id \in OidParams, u \in PutBodies : PutBiodatasIndex(p, tok, id, u)
  \/ \E id \in OidParams, u \in PutBodies : OwnedBegin(p, "PUT", tok, id, u)
  \/ \E id \in OidParams : OwnedBegin(p, "DELETE", tok, id, EmptyDoc)
  \/ \E id \in OidParams : DeleteBiodatasIndex(p, tok, id)
  \/ \E id \in UserOidParams, r \in PatchRoles : PatchUsersRole(p, tok, id, r)
  \/ \E op \in GatedOps : \E id \in GatedOidParams(op) : AdminGateBegin(p, op, tok, id)
  \/ \E body \in LedgerBodies : PostPayments(p, tok, body)
  \/ \E body \in LedgerBodies : PostContactRequest(p, tok, body)
  \/ \E body \in LedgerBodies : PostPremiumRequests(p, tok, body)
  \/ \E id \in RequestOidParams(contactRequests) : ApproveContactLegacy(p, tok, id)

\* C15: a request to a token-protected route without an Authorization
\* header is answered 401 and one with an invalid or expired token 403; the
\* request ends there (the handler does not run) and no collection changes.
C15_TokenGate ==
  [][ \A p \in Procs, tok \in {NoHeader, BadToken} :
        TokenProtectedRequest(p, tok)
          => /\ resp'.status = (IF tok = NoHeader THEN 401 ELSE 403)
             /\ resp'.threw = "none"
             /\ req'[p] = Idle
             /\ stores' = stores
    ]_vars

\* PATCH /users/role/:id was turned away for its token while a second
\* account is stored.
C15_Witness ==
  /\ resp = Response("ROLE", 403, "none")
  /\ Cardinality(users) > 1

\* ------------------------------------------------ claims on the request ledger
\* The two collections of requests.
RequestCollections == {"contact", "premium"}
RequestsOf(c) == IF c = "contact" THEN contactRequests ELSE premiumRequests

\* C16: a contact or premium request is created pending whatever the body
\* says, its status is never anything but pending or approved, an approved
\* request never becomes pending again, and a step taken while the request
\* is already approved (a second approve) leaves its stored record as it is.
C16_TwoStateLifecycle ==
  [][ \A c \in RequestCollections :
        /\ \A d \in RequestsOf(c)' :
             /\ d.status \in {"pending", "approved"}
             /\ (~\E e \in RequestsOf(c) : e.oid = d.oid) => d.status = "pending"
        /\ \A d \in RequestsOf(c) :
             d.status = "approved" => d \in RequestsOf(c)'
    ]_vars

\* The profile a premium request names is premium.
ProfileIsPremium(r) ==
  \E d \in biodatas :
    /\ Has(d, "biodataId") /\ d.biodataId = r.biodataId
    /\ Has(d, "isPremium") /\ d.isPremium = TRUE

ApproveInFlight == \E p \in Procs : req[p].op = "APPROVEPREMIUM"

\* C17: once no PATCH /premium-requests/:id/approve is under way, whether
\* the last one succeeded or failed, a premium request is approved exactly
\* when the profile with its biodataId is premium; and an approve of an id no
\* request has is answered 404 (500 when the lookup fails) with no
\* collection changed.
C17_ApprovedIffProfilePremium ==
  [][ /\ ~ApproveInFlight' =>
           \A r \in premiumRequests' :
             (r.status = "approved") <=> ProfileIsPremium(r)'
      /\ \A p \in Procs :
           (ApprovePremiumFind(p) /\ FindByOid(premiumRequests, req[p].id) = {})
             => /\ resp'.status \in {404, 500}
                /\ req'[p] = Idle
                /\ stores' = stores
    ]_vars

PaymentInFlight == \E p \in Procs : req[p].op = "PAY"

\* The contact requests POST /payments created for a payment.
ContactRequestsOf(pay) ==
  {c \in contactRequests : c.paymentId = pay.oid /\ c.biodataId = pay.biodataId}

\* C19: once no POST /payments is under way, whether the last one was
\* answered 201 or 500, every payment has exactly one contact request with
\* its biodataId and paymentId, created pending, and every contact request
\* that names a payment has that payment.
C19_PaymentAndContactRequestTogether ==
  ~PaymentInFlight =>
    /\ \A pay \in payments : Cardinality(ContactRequestsOf(pay)) = 1
    /\ \A c \in contactRequests :
         c.paymentId # 0 => \E pay \in payments : c \in ContactRequestsOf(pay)

\* ------------------------------------------------ claims on /biodatas/similar
\* C20: index.js answers GET /biodatas/similar?gender=g&exclude=x through the
\* similar-profiles handler: 400 only when gender is missing, and otherwise
\* (unless the store fails) 200 with at most three distinct profiles, each
\* of biodataType g without regard to case and with an _id other than x; the
\* request is not taken for GET /biodatas/:id.
C20_SimilarIsServedBySimilarHandler ==
  LET rq == qresp.rq
      similar(d) ==
        /\ Has(d, "biodataType") /\ EqualIgnoringCase(d.biodataType, rq.gender)
        /\ Has(rq, "exclude") => d.oid # SegmentOid(rq.exclude)
      items == qresp.biodatas
  IN  ( /\ variant = "index"
        /\ qresp.status # 0
        /\ Has(rq, "path") /\ rq.path = SimilarSegment )
      => /\ rq.route = "SIMILAR"
         /\ (qresp.status = 400) <=> ~Has(rq, "gender")
         /\ Has(rq, "gender") =>
              /\ qresp.status \in {200, 500}
              /\ qresp.status = 200 =>
                   /\ Len(items) = Min(3, Cardinality({d \in biodatas : similar(d)}))
                   /\ \A i, j \in 1..Len(items) : i # j => items[i] # items[j]
                   /\ \A i \in 1..Len(items) : items[i] \in biodatas /\ similar(items[i])

\* ------------------------------------------ claims on reads beside writers
\* The number of items of a page cut from n ordered matches.
PageLength(rq, n) ==
  LET skip == SkipCount(PageOf(rq), LimitOrZero(rq))
      left == IF n - skip.n > 0 THEN n - skip.n ELSE 0
  IN  Min(LimitOf(rq).n, left)

\* C21: GET /biodatas answers from one view of the store, also while
\* profiles are created and deleted: total is the number of matches in the
\* store state the items were read from, so without pagination total is the
\* number of items returned, and with pagination the items returned are as
\* many as the requested page of total matches holds.
C21_TotalFromTheViewItemsWereReadFrom ==
  LET rq == qresp.rq
      n == Len(qresp.biodatas)
  IN  Answered =>
        IF ~Paginates(rq) THEN qresp.total = n
        ELSE LET skip == SkipCount(PageOf(rq), LimitOrZero(rq))
             IN  (~skip.nan /\ skip.n >= 0) => n = PageLength(rq, qresp.total)

\* ------------------------------------------------ claims on repeat sign-ins
\* C22: POST /users for an email that has an account, with no role in the
\* body, leaves the role of that account as it was.
C22_RepeatSignInKeepsRole ==
  [][ \A p \in Procs, e \in SignupEmails :
        ( /\ ByEmail(users, e) # {}
          /\ \/ PostUsers(p, TRUE, e, NoRole)
             \/ PostUsersLegacy(p, e, NoRole) )
          => \A u \in ByEmail(users, e) :
               \E v \in users' : v.oid = u.oid /\ v.role = u.role
    ]_vars

=========================================================================
